---- MODULE Spec2Model ----
(***************************************************************************)
(* A model of the pcap crate's capture handle (src/src/lib.rs): the        *)
(* typestate lifecycle of Capture<T>, the packet retrieval call next(),    *)
(* the error conversion Error::new, the equality of Packet views, the     *)
(* poll step of a stream and the save-file round trip.                     *)
(* The capture engine (libpcap) is an opaque collaborator: every result    *)
(* it hands back is an input chosen from a small set.                      *)
(***************************************************************************)
EXTENDS Integers, Sequences, FiniteSets, TLC

(***************************************************************************)
(* Bounds of the model.                                                    *)
(***************************************************************************)
\* packets the engine buffers for one live handle
MaxQueue == 1
\* records of the capture file
MaxRecords == 2
\* Packet values alive at once for one handle (the first and its clones)
MaxViews == 2
\* the largest value of a header field, and the longest data, of the Packet
\* views that are compared
MaxField == 1
MaxDataLen == 1
\* packets written to one save-file
MaxWrites == 2
\* the longest diagnostic text handed to Error::new
MaxText == 3

\* the handle of the capture specification, and the handle that reads a
\* save-file back
Handles == {"h1"}

SaveReader == "h2"

AllHandles == Handles \cup {SaveReader}

(***************************************************************************)
(* Bytes and C strings.  0 is the terminator, 101 an ASCII letter, 195 169 *)
(* the two bytes of one character, and 255 a byte that no UTF-8 text       *)
(* contains.                                                               *)
(***************************************************************************)
\* CStr::to_str / Path::to_str: ASCII bytes, and two-byte characters (a lead
\* byte 194..223 and one continuation byte 128..191); the bytes of the model
\* start no longer character
RECURSIVE Utf8Valid(_)
Utf8Valid(bytes) ==
    IF bytes = <<>> THEN TRUE
    ELSE IF bytes[1] < 128 THEN Utf8Valid(Tail(bytes))
    ELSE /\ bytes[1] \in 194..223
         /\ Len(bytes) >= 2 /\ bytes[2] \in 128..191
         /\ Utf8Valid(SubSeq(bytes, 3, Len(bytes)))

NullPtr == [null |-> TRUE, bytes |-> <<>>]

CStr(bytes) == [null |-> FALSE, bytes |-> bytes]

\* what pcap_geterr may hand back: the handle's own buffer, never null
GetErrPtrs == {CStr(<<101>>), CStr(<<255>>)}

\* what the engine may leave in the caller's error buffer: never null
ErrBufs == {CStr(<<101>>), CStr(<<255>>)}

(***************************************************************************)
(* The error taxonomy.                                                     *)
(***************************************************************************)
OkRes == [kind |-> "Ok", msg |-> <<>>]

Err(kind) == [kind |-> kind, msg |-> <<>>]

PcapError(text) == [kind |-> "PcapError", msg |-> text]

\* a panic of the calling thread (unreachable!, panic!)
Panic == Err("Panic")

cstr_to_string(ptr) ==
    IF ptr.null
    THEN [ok |-> TRUE, some |-> FALSE, str |-> <<>>]
    ELSE IF Utf8Valid(ptr.bytes)
         THEN [ok |-> TRUE, some |-> TRUE, str |-> ptr.bytes]
         ELSE [ok |-> FALSE, some |-> FALSE, str |-> <<>>]

\* an Error::new that does not check the text it copies
ErrorNewUnchecked(ptr) == [kind |-> "PcapError", msg |-> ptr.bytes]

\* an Error::new that reports a null pointer as InvalidString
ErrorNewNullInvalid(ptr) ==
    IF ptr.null THEN Err("InvalidString")
    ELSE IF Utf8Valid(ptr.bytes) THEN PcapError(ptr.bytes) ELSE Err("MalformedError")

ErrorNew(ptr) ==
    LET r == cstr_to_string(ptr)
    IN  IF ~r.ok THEN Err("MalformedError")
        ELSE PcapError(IF r.some THEN r.str ELSE <<>>)

\* a CString::new that takes any string
CStringNewAny(s) == TRUE

\* CString::new: refuses a string with an interior terminator
CStringNewOk(s) == \A i \in 1..Len(s) : s[i] # 0

\* Capture::check_err; the engine is asked for its text only on failure
check_err(success, geterr) == IF success THEN OkRes ELSE ErrorNew(geterr)

check_err_calls(success) == IF success THEN <<>> ELSE <<"pcap_geterr">>

(***************************************************************************)
(* Packets.  The engine hands out a header and a buffer; a Packet view is  *)
(* the header and the first caplen bytes of the buffer.                    *)
(***************************************************************************)
PacketHeader(sec, usec, caplen, len) ==
    [tv_sec |-> sec, tv_usec |-> usec, caplen |-> caplen, len |-> len]

PacketNew(header, data) == [header |-> header, data |-> data]

\* slice::from_raw_parts(packet, caplen)
SliceFromRawParts(buf, n) == SubSeq(buf, 1, n)

\* engine records: a whole packet; one cut by the snapshot length, in a
\* buffer longer than caplen; one whose caplen exceeds len
EngineRecords ==
    { [hdr |-> PacketHeader(1, 0, 2, 2), buf |-> <<7, 8>>],
      [hdr |-> PacketHeader(1, 1, 1, 3), buf |-> <<7, 9>>] }

ViewOf(rec) == PacketNew(rec.hdr, SliceFromRawParts(rec.buf, rec.hdr.caplen))

RECURSIVE SeqsUpTo(_, _)
SeqsUpTo(S, n) ==
    IF n = 0 THEN {<<>>}
    ELSE LET shorter == SeqsUpTo(S, n - 1)
         IN  shorter \cup {Append(s, x) : s \in {t \in shorter : Len(t) = n - 1}, x \in S}

RECURSIVE Count(_, _)
Count(seq, x) ==
    IF seq = <<>> THEN 0
    ELSE (IF Head(seq) = x THEN 1 ELSE 0) + Count(Tail(seq), x)

(***************************************************************************)
(* State.                                                                  *)
(***************************************************************************)
VARIABLES
    cap,        \* the Capture value that owns each handle: st, tag, nonblock,
                \* and the number of values alive that wrap the handle
    eng,        \* the engine's side of each handle: st, tmo, nonblock, queue, pos
    closes,     \* pcap_close calls made on each handle
    views,      \* the Packet values alive that borrow each handle
    stale,      \* a Packet value was alive across a later call on its handle
    origin,     \* the entry point that made each handle
    opened,     \* open() succeeded on the handle
    delivered,  \* the packets next() returned on each file-backed handle
    eof,        \* next() has returned NoMorePackets on the handle
    file,       \* the capture file opened: its records, and whether its tail is cut
    sf,         \* the Savefile value: st, the pcap_dump_close calls made, and
                \* the number of values alive that wrap the dumper
    last,       \* the last call: operation, handle, engine status, result
    eqA, eqB, eqRes, \* two Packet views and, once compared, <<whether equal>>
    reactor,    \* the reactor's side of each stream: registered, read-ready
    errPtr, errRes, \* a diagnostic pointer and, once converted, <<the Error>>
    task,       \* the task that polls each stream: where it is in a poll step,
                \* whether it was woken during the step, the packets it yielded
    registration \* the reactor's registration of each descriptor: an event
                \* the OS reported, the readiness the reactor holds, a waker

vars == <<cap, eng, closes, views, stale, origin, opened, delivered, eof,
          file, sf, last, eqA, eqB, eqRes, reactor, errPtr, errRes, task,
          registration>>

NoCap == [st |-> "none", tag |-> "none", nonblock |-> FALSE, stream |-> FALSE,
          owners |-> 0]

NoEng == [st |-> "absent", tmo |-> 0, nonblock |-> FALSE, queue |-> <<>>, pos |-> 0,
          filter |-> <<>>]

NoLast == [op |-> "none", h |-> "none", tag |-> "none", eng |-> "absent",
           status |-> 0, diag |-> NullPtr, res |-> OkRes, pkt |-> <<>>,
           calls |-> <<>>]

\* no descriptor registered with the reactor
NoReactor == [registered |-> FALSE, ready |-> FALSE]

\* the consumer of a stream polls it once it has it
NoTask == [pc |-> "ready", woken |-> FALSE, yields |-> 0, raced |-> FALSE]

NoRegistration == [event |-> FALSE, readiness |-> FALSE, waker |-> FALSE]

NoPacket == PacketNew(PacketHeader(0, 0, 0, 0), <<>>)

Files == { [recs |-> r, cut |-> c] : r \in SeqsUpTo(EngineRecords, MaxRecords),
                                      c \in BOOLEAN }

\* no save-file: recs are the records the dumper wrote, given the Packet
\* values write() was called with
NoSavefile == [st |-> "none", closes |-> 0, owners |-> 0, recs |-> <<>>, given |-> <<>>]

InitCapture ==
    /\ cap = [h \in AllHandles |-> NoCap]
    /\ eng = [h \in AllHandles |-> NoEng]
    /\ closes = [h \in AllHandles |-> 0]
    /\ views = [h \in AllHandles |-> <<>>]
    /\ stale = [h \in AllHandles |-> FALSE]
    /\ origin = [h \in AllHandles |-> "none"]
    /\ opened = [h \in AllHandles |-> FALSE]
    /\ delivered = [h \in AllHandles |-> <<>>]
    /\ eof = [h \in AllHandles |-> FALSE]
    /\ sf = NoSavefile
    /\ last = NoLast
    /\ reactor = [h \in AllHandles |-> NoReactor]
    /\ task = [h \in AllHandles |-> NoTask]
    /\ registration = [h \in AllHandles |-> NoRegistration]

NoFile == [recs |-> <<>>, cut |-> FALSE]

Init ==
    /\ InitCapture
    /\ file = NoFile
    /\ eqA = NoPacket /\ eqB = NoPacket /\ eqRes = <<>>
    /\ errPtr = NullPtr /\ errRes = <<>>

eqVars == <<eqA, eqB, eqRes>>

errVars == <<errPtr, errRes>>

pollVars == <<task, registration>>

\* a handle the engine has not handed out yet
Fresh(h) ==
    /\ cap[h].st = "none"
    /\ eng[h].st = "absent"

\* the record of a call: the tag of the value and the engine's state of the
\* handle when it was made, the engine's status and the text it handed back
\* (NullPtr when it was not asked for one), the result, the engine calls
CallD(op, h, status, diag, res, pkt, calls) ==
    [op |-> op, h |-> h, tag |-> cap[h].tag, eng |-> eng[h].st,
     status |-> status, diag |-> diag, res |-> res, pkt |-> pkt, calls |-> calls]

Call(op, h, status, res, pkt, calls) == CallD(op, h, status, NullPtr, res, pkt, calls)

histVars == <<origin, opened, delivered, eof>>

(***************************************************************************)
(* Capture::new and Drop.                                                  *)
(***************************************************************************)
\* a Capture::new that starts with the non-blocking flag set
CaptureNewNonblock(tag) ==
    [st |-> "live", tag |-> tag, nonblock |-> TRUE, stream |-> FALSE, owners |-> 1]

\* Capture::new: the non-blocking flag starts false
CaptureNew(tag) ==
    [st |-> "live", tag |-> tag, nonblock |-> FALSE, stream |-> FALSE, owners |-> 1]

\* a Drop that forgets the close
DropClosesNone(n) == n

\* impl Drop for Capture<T>: one pcap_close on the wrapped handle
DropCloses(n) == n + 1

DropCapture(h) ==
    /\ cap' = [cap EXCEPT ![h] = [@ EXCEPT !.st = "dropped", !.owners = @ - 1]]
    /\ eng' = [eng EXCEPT ![h] = [@ EXCEPT !.st = "closed"]]
    /\ closes' = [closes EXCEPT ![h] = DropCloses(@)]

\* a Packet that borrows nothing
BorrowFreeAlways(h) == TRUE

\* the borrow a Packet holds on its Capture: while a Packet returned by
\* next(&mut self) is alive, the Capture can be neither used nor dropped
BorrowFree(h) == views[h] = <<>>

\* a call on a handle while a Packet of it is alive leaves that Packet stale
Touch(h) == stale' = [stale EXCEPT ![h] = @ \/ views[h] # <<>>]

(***************************************************************************)
(* The entry points.                                                       *)
(***************************************************************************)
\* caller-supplied strings: a plain one, and one with an interior terminator
InputStrings == {<<101>>, <<101, 0, 101>>}

\* paths: the same, and one that has no UTF-8 string form
InputPaths == InputStrings \cup {<<255>>}

\* Path::to_str: None (the empty sequence) for a path that is not UTF-8
PathToStr(path) == IF Utf8Valid(path) THEN <<path>> ELSE <<>>

\* a new_raw that asks the engine again when it got no handle
new_rawRetry(path, fn, ret, errbuf) ==
    IF path # <<>> /\ ~CStringNewOk(path[1])
    THEN [res |-> Err("InvalidInputString"), made |-> FALSE, calls |-> <<>>,
          diag |-> NullPtr]
    ELSE IF ret = "null"
         THEN [res |-> ErrorNew(errbuf), made |-> FALSE, calls |-> <<fn, fn>>,
               diag |-> errbuf]
         ELSE [res |-> OkRes, made |-> TRUE, calls |-> <<fn>>, diag |-> NullPtr]

\* Capture::new_raw: path is <<>> for None, <<s>> for Some(s); ret is what the
\* engine's open call returns and errbuf what it leaves in the error buffer
new_raw(path, fn, ret, errbuf) ==
    IF path # <<>> /\ ~CStringNewOk(path[1])
    THEN [res |-> Err("InvalidInputString"), made |-> FALSE, calls |-> <<>>,
          diag |-> NullPtr]
    ELSE IF ret = "null"
         THEN [res |-> ErrorNew(errbuf), made |-> FALSE, calls |-> <<fn>>,
               diag |-> errbuf]
         ELSE [res |-> OkRes, made |-> TRUE, calls |-> <<fn>>, diag |-> NullPtr]

Construct(op, h, tag, engSt, r, f) ==
    /\ last' = [op |-> op, h |-> h, tag |-> "none", eng |-> "absent",
                status |-> 0, diag |-> r.diag, res |-> r.res, pkt |-> <<>>,
                calls |-> r.calls]
    /\ IF r.made
       THEN /\ cap' = [cap EXCEPT ![h] = CaptureNew(tag)]
            /\ eng' = [eng EXCEPT ![h] = [NoEng EXCEPT !.st = engSt]]
            /\ origin' = [origin EXCEPT ![h] = op]
            /\ file' = f
       ELSE UNCHANGED <<cap, eng, origin, file>>
    /\ UNCHANGED <<closes, views, stale, opened, delivered, eof, sf, eqVars, errVars, pollVars, reactor>>

\* from_device on a device name, with what pcap_create returns
from_device_with(h, name, ret) ==
    \E errbuf \in IF ret = "null" /\ CStringNewOk(name) THEN ErrBufs ELSE {NullPtr} :
      Construct("from_device", h, "Inactive", "created",
                new_raw(<<name>>, "pcap_create", ret, errbuf), file)

from_device(h) ==
    /\ Fresh(h)
    /\ \E name \in InputStrings, ret \in {"null", "handle"} :
         from_device_with(h, name, ret)

\* with no string form of the path, the engine is handed a null pointer:
\* it refuses it, or the process dies in the engine
from_file_with(h, path, ret) ==
    LET str == PathToStr(path)
        fn == IF str = <<>> THEN "pcap_open_offline(NULL)" ELSE "pcap_open_offline"
        asked == str = <<>> \/ CStringNewOk(str[1])
    IN  /\ str = <<>> => ret # "handle"
        /\ str # <<>> => ret # "crash"
        /\ \E errbuf \in IF ret = "null" /\ asked THEN ErrBufs ELSE {NullPtr},
              f \in IF ret = "handle" /\ asked THEN Files ELSE {file} :
             IF ret = "crash"
             THEN Construct("from_file", h, "Offline", "offline",
                            [res |-> Err("Crash"), made |-> FALSE, calls |-> <<fn>>,
                             diag |-> NullPtr], f)
             ELSE Construct("from_file", h, "Offline", "offline",
                            new_raw(str, fn, ret, errbuf), f)

from_file(h) ==
    /\ Fresh(h)
    /\ \E path \in InputPaths, ret \in {"null", "handle", "crash"} :
         from_file_with(h, path, ret)

\* open_raw_fd: fdopen may refuse the descriptor
open_raw_fd(fdopenOk) == IF fdopenOk THEN OkRes ELSE Err("InvalidRawFd")

from_raw_fd(h) ==
    /\ Fresh(h)
    /\ \E fdopenOk \in BOOLEAN, ret \in {"null", "handle"} :
       \E errbuf \in IF ret = "null" /\ fdopenOk THEN ErrBufs ELSE {NullPtr},
          f \in IF ret = "handle" /\ fdopenOk THEN Files ELSE {file} :
         IF open_raw_fd(fdopenOk).kind # "Ok"
         THEN Construct("from_raw_fd", h, "Offline", "offline",
                        [res |-> open_raw_fd(fdopenOk), made |-> FALSE,
                         calls |-> <<"fdopen">>, diag |-> NullPtr], f)
         ELSE LET r == new_raw(<<>>, "pcap_fopen_offline", ret, errbuf)
              IN  Construct("from_raw_fd", h, "Offline", "offline",
                            [r EXCEPT !.calls = <<"fdopen">> \o @], f)

\* dead(), with what pcap_open_dead returns
dead_with(h, ret) ==
    Construct("dead", h, "Dead", "dead",
              IF ret = "null"
              THEN [res |-> Err("InsufficientMemory"), made |-> FALSE,
                    calls |-> <<"pcap_open_dead">>, diag |-> NullPtr]
              ELSE [res |-> OkRes, made |-> TRUE, calls |-> <<"pcap_open_dead">>,
                    diag |-> NullPtr], file)

dead(h) ==
    /\ Fresh(h)
    /\ \E ret \in {"null", "handle"} : dead_with(h, ret)

(***************************************************************************)
(* The state-gated operation sets.                                         *)
(***************************************************************************)
\* a value the caller holds and may use: alive, not moved into a stream,
\* and not borrowed by a Packet
Usable(h) == cap[h].st = "live" /\ ~cap[h].stream /\ BorrowFree(h)

\* the setters and open() placed on every Capture<T: State>
IsInactiveAny(h) == cap[h].tag \in {"Inactive", "Active", "Offline", "Dead"}

\* impl Capture<Inactive>
IsInactive(h) == cap[h].tag = "Inactive"

\* Activated implemented for Inactive too
IsActivatedAny(h) == cap[h].tag \in {"Inactive", "Active", "Offline", "Dead", "dyn"}

\* unsafe impl Activated for Active, Offline, Dead; dyn Activated is the
\* type-erased view
IsActivated(h) == cap[h].tag \in {"Active", "Offline", "Dead", "dyn"}

\* setnonblock offered on every activated state
IsActiveOrFile(h) == cap[h].tag \in {"Active", "Offline", "Dead"}

\* impl Capture<Active>
IsActive(h) == cap[h].tag = "Active"

\* a method that hands back a second value and leaves the first one usable
MoveSelfCopy(c) == [c EXCEPT !.owners = @ + 1]

\* a method that takes self by value and hands it back: Capture is neither
\* Clone nor Copy, so the value given is gone and one value wraps the handle
MoveSelf(c) == c

\* a conversion that builds the new value with Capture::new
TransmuteNew(c, tag) == [MoveSelf(c) EXCEPT !.tag = tag, !.nonblock = FALSE]

\* mem::transmute(self): the same fields under another state tag
Transmute(c, tag) == [MoveSelf(c) EXCEPT !.tag = tag]

(***************************************************************************)
(* impl Capture<Inactive>: the setters and open().                         *)
(***************************************************************************)
PosTimeout == 1

Setters ==
    {"timeout", "tstamp_type", "promisc", "immediate_mode", "rfmon",
     "buffer_size", "precision", "snaplen"}

SetterCall(name) ==
    CASE name = "timeout" -> "pcap_set_timeout"
      [] name = "tstamp_type" -> "pcap_set_tstamp_type"
      [] name = "promisc" -> "pcap_set_promisc"
      [] name = "immediate_mode" -> "pcap_set_immediate_mode"
      [] name = "rfmon" -> "pcap_set_rfmon"
      [] name = "buffer_size" -> "pcap_set_buffer_size"
      [] name = "precision" -> "pcap_set_tstamp_precision"
      [] name = "snaplen" -> "pcap_set_snaplen"

\* each setter makes its engine call, ignores the status and returns self
setter(h) ==
    /\ Usable(h) /\ IsInactive(h)
    /\ \E name \in Setters, ms \in {0, PosTimeout} :
         /\ name # "timeout" => ms = 0
         /\ last' = Call(name, h, 0, OkRes, <<>>, <<SetterCall(name)>>)
         /\ eng' = [eng EXCEPT ![h] =
                       IF name = "timeout" THEN [@ EXCEPT !.tmo = ms] ELSE @]
    /\ cap' = [cap EXCEPT ![h] = MoveSelf(@)]
    /\ Touch(h)
    /\ UNCHANGED <<closes, views, histVars, file, sf, eqVars, errVars, pollVars, reactor>>

\* pcap_activate: 0, a warning (positive, the handle is activated), an error
ActivateRets == {0, 1, -1}

\* an open() that takes a warning for success
ActivateOkWarn(ret) == ret >= 0

\* open() takes the activation as done only on status 0
ActivateOk(ret) == ret = 0

open(h) ==
    /\ Usable(h) /\ IsInactive(h)
    /\ \E ret \in ActivateRets :
       \E geterr \in IF ActivateOk(ret) THEN {NullPtr} ELSE GetErrPtrs :
         LET chk == check_err(ActivateOk(ret), geterr)
             calls == <<"pcap_activate">> \o check_err_calls(ActivateOk(ret))
         IN  IF chk.kind = "Ok"
             THEN /\ cap' = [cap EXCEPT ![h] = Transmute(@, "Active")]
                  /\ eng' = [eng EXCEPT ![h] = [@ EXCEPT !.st = "activated"]]
                  /\ opened' = [opened EXCEPT ![h] = TRUE]
                  /\ last' = Call("open", h, ret, chk, <<>>, calls)
                  /\ UNCHANGED closes
             ELSE /\ DropCapture(h)
                  /\ last' = CallD("open", h, ret, geterr, chk, <<>>,
                                   calls \o <<"pcap_close">>)
                  /\ UNCHANGED opened
    /\ Touch(h)
    /\ UNCHANGED <<views, origin, delivered, eof, file, sf, eqVars, errVars, pollVars, reactor>>

(***************************************************************************)
(* impl Capture<Active>.                                                   *)
(***************************************************************************)
sendpacket(h) ==
    /\ Usable(h) /\ IsActive(h)
    /\ \E ret \in {0, -1} :
       \E geterr \in IF ret = 0 THEN {NullPtr} ELSE GetErrPtrs :
         last' = CallD("sendpacket", h, ret, geterr, check_err(ret = 0, geterr), <<>>,
                       <<"pcap_sendpacket">> \o check_err_calls(ret = 0))
    /\ Touch(h)
    /\ UNCHANGED <<cap, eng, closes, views, histVars, file, sf, eqVars, errVars, pollVars, reactor>>

\* what pcap_fileno may answer: no descriptor, or one
FilenoRets == {-1, 3}

\* an as_raw_fd that reports the missing descriptor as an error value
AsRawFdResultErr(fd) ==
    IF fd = -1 THEN PcapError(<<>>) ELSE [kind |-> "Ok", msg |-> <<fd>>]

\* the match on fd: Ok carries the descriptor returned
AsRawFdResult(fd) ==
    IF fd = -1 THEN Panic ELSE [kind |-> "Ok", msg |-> <<fd>>]

\* impl AsRawFd for Capture<Active>
as_raw_fd(h) ==
    /\ Usable(h) /\ IsActive(h)
    /\ \E fd \in FilenoRets :
         last' = Call("as_raw_fd", h, fd, AsRawFdResult(fd), <<>>, <<"pcap_fileno">>)
    /\ Touch(h)
    /\ UNCHANGED <<cap, eng, closes, views, histVars, file, sf, eqVars, errVars, pollVars, reactor>>

setnonblock(h) ==
    /\ Usable(h) /\ IsActive(h)
    /\ \E ret \in {0, -1} :
       \E errbuf \in IF ret = 0 THEN {NullPtr} ELSE ErrBufs :
         IF ret # 0
         THEN /\ DropCapture(h)
              /\ last' = CallD("setnonblock", h, ret, errbuf, ErrorNew(errbuf), <<>>,
                               <<"pcap_setnonblock", "pcap_close">>)
         ELSE /\ cap' = [cap EXCEPT ![h] = [MoveSelf(@) EXCEPT !.nonblock = TRUE]]
              /\ eng' = [eng EXCEPT ![h] = [@ EXCEPT !.nonblock = TRUE]]
              /\ last' = Call("setnonblock", h, ret, OkRes, <<>>, <<"pcap_setnonblock">>)
              /\ UNCHANGED closes
    /\ Touch(h)
    /\ UNCHANGED <<views, histVars, file, sf, eqVars, errVars, pollVars, reactor>>

(***************************************************************************)
(* Drop and the type-erased view.                                          *)
(***************************************************************************)
drop(h) ==
    /\ cap[h].st = "live" /\ BorrowFree(h)
    /\ DropCapture(h)
    /\ last' = Call("drop", h, 0, OkRes, <<>>, <<"pcap_close">>)
    /\ reactor' = [reactor EXCEPT ![h] = NoReactor]
    /\ task' = [task EXCEPT ![h] = NoTask]
    /\ registration' = [registration EXCEPT ![h] = NoRegistration]
    /\ Touch(h)
    /\ UNCHANGED <<views, histVars, file, sf, eqVars, errVars>>

\* impl<T: Activated> From<Capture<T>> for Capture<dyn Activated>
into_dyn(h) ==
    /\ Usable(h) /\ cap[h].tag \in {"Active", "Offline", "Dead"}
    /\ cap' = [cap EXCEPT ![h] = Transmute(@, "dyn")]
    /\ last' = Call("into_dyn", h, 0, OkRes, <<>>, <<>>)
    /\ UNCHANGED <<eng, closes, views, stale, histVars, file, sf, eqVars, errVars, pollVars, reactor>>

(***************************************************************************)
(* impl<T: Activated + ?Sized> Capture<T>: next().                         *)
(***************************************************************************)
\* the statuses of pcap_next_ex the code names
PCAP_ERROR == -1

PCAP_ERROR_BREAK == -2

\* a status outside the set the code names
UndocumentedStatus == -3

\* what pcap_next_ex can answer on a handle.  Live: a queued packet, or
\* a timeout when the read timeout is positive or the handle does not block
\* (with neither the call does not return before a packet arrives), or a
\* failure.  File-backed: the records in order, then the end of the file, or
\* a read error where the file is cut.  Dead: no packets.
NextStatuses(h) ==
    CASE eng[h].st = "activated" ->
            (IF eng[h].queue # <<>> THEN {1}
             ELSE IF eng[h].tmo > 0 \/ eng[h].nonblock THEN {0} ELSE {})
            \cup {PCAP_ERROR, UndocumentedStatus}
      [] eng[h].st = "offline" ->
            IF eng[h].pos < Len(file.recs) THEN {1}
            ELSE IF file.cut THEN {PCAP_ERROR} ELSE {PCAP_ERROR_BREAK}
      [] eng[h].st = "dead" -> {PCAP_ERROR}
      [] OTHER -> {}

\* the record pcap_next_ex points header and packet at
NextRecord(h) ==
    IF eng[h].st = "offline" THEN file.recs[eng[h].pos + 1] ELSE Head(eng[h].queue)

EngineAdvance(e) ==
    IF e.st = "offline" THEN [e EXCEPT !.pos = @ + 1]
    ELSE [e EXCEPT !.queue = Tail(@)]

\* variants of the match on retcode: the end of the file taken for a
\* timeout and a timeout for the end of the file; the end of the file
\* taken for a timeout; a timeout taken for a failure
NextResultWith(retcode, geterr, rec, onZero, onBreak) ==
    IF retcode = 0 THEN [res |-> onZero, pkt |-> <<>>]
    ELSE IF retcode = -2 THEN [res |-> onBreak, pkt |-> <<>>]
    ELSE IF retcode = -1 THEN [res |-> ErrorNew(geterr), pkt |-> <<>>]
    ELSE IF retcode >= 1
         THEN [res |-> OkRes,
               pkt |-> <<[header |-> rec[1].hdr,
                          data |-> SubSeq(rec[1].buf, 1, rec[1].hdr.caplen)]>>]
    ELSE [res |-> Err("Panic"), pkt |-> <<>>]

NextResultSwapped(retcode, geterr, rec) ==
    NextResultWith(retcode, geterr, rec, Err("NoMorePackets"), Err("TimeoutExpired"))

NextResultEofAsTimeout(retcode, geterr, rec) ==
    NextResultWith(retcode, geterr, rec, Err("TimeoutExpired"), Err("TimeoutExpired"))

NextResultTimeoutAsError(retcode, geterr, rec) ==
    NextResultWith(retcode, geterr, rec, ErrorNew(geterr), Err("NoMorePackets"))

\* a status outside the named ones taken for a timeout
NextResultUnknownIgnored(retcode, geterr, rec) ==
    IF retcode < -2 THEN [res |-> Err("TimeoutExpired"), pkt |-> <<>>]
    ELSE NextResultWith(retcode, geterr, rec, Err("TimeoutExpired"), Err("NoMorePackets"))

\* the match on retcode, after check_err(retcode != -1)?; rec is <<>> or the
\* record the engine produced
NextResult(retcode, geterr, rec) ==
    LET chk == check_err(retcode # PCAP_ERROR, geterr)
    IN  IF chk.kind # "Ok" THEN [res |-> chk, pkt |-> <<>>]
        ELSE IF retcode >= 1
             THEN [res |-> OkRes,
                   pkt |-> <<PacketNew(rec[1].hdr,
                                       SliceFromRawParts(rec[1].buf, rec[1].hdr.caplen))>>]
        ELSE IF retcode = 0 THEN [res |-> Err("TimeoutExpired"), pkt |-> <<>>]
        ELSE IF retcode = PCAP_ERROR_BREAK THEN [res |-> Err("NoMorePackets"), pkt |-> <<>>]
        ELSE [res |-> Panic, pkt |-> <<>>]

\* the engine calls of one next(): one retrieval, and the text on failure
NextCalls(retcode) == <<"pcap_next_ex">> \o check_err_calls(retcode # PCAP_ERROR)

next(h) ==
    /\ Usable(h) /\ IsActivated(h)
    /\ \E retcode \in NextStatuses(h) :
       \E geterr \in IF retcode = PCAP_ERROR THEN GetErrPtrs ELSE {NullPtr} :
         LET rec == IF retcode >= 1 THEN <<NextRecord(h)>> ELSE <<>>
             out == NextResult(retcode, geterr, rec)
         IN  /\ last' = CallD("next", h, retcode, geterr, out.res, out.pkt,
                              NextCalls(retcode))
             /\ eng' = [eng EXCEPT ![h] = IF retcode >= 1 THEN EngineAdvance(@) ELSE @]
             /\ views' = [views EXCEPT ![h] = out.pkt]
             /\ delivered' = [delivered EXCEPT ![h] =
                                 IF eng[h].st = "offline" THEN @ \o out.pkt ELSE @]
             /\ eof' = [eof EXCEPT ![h] = @ \/ out.res = Err("NoMorePackets")]
    /\ Touch(h)
    /\ UNCHANGED <<cap, closes, origin, opened, file, sf, eqVars, errVars, pollVars, reactor>>

(***************************************************************************)
(* Packet values: Clone and drop.  A clone has the lifetime of the         *)
(* original, so it holds the same borrow.                                  *)
(***************************************************************************)
clone_packet(h) ==
    /\ views[h] # <<>> /\ Len(views[h]) < MaxViews
    /\ views' = [views EXCEPT ![h] = Append(@, Head(@))]
    /\ UNCHANGED <<cap, eng, closes, stale, histVars, file, sf, last, eqVars, errVars, pollVars, reactor>>

drop_packet(h) ==
    /\ views[h] # <<>>
    /\ views' = [views EXCEPT ![h] = Tail(@)]
    /\ UNCHANGED <<cap, eng, closes, stale, histVars, file, sf, last, eqVars, errVars, pollVars, reactor>>

\* the network: a packet reaches the buffer of an activated live handle
packet_arrives(h) ==
    /\ eng[h].st = "activated" /\ Len(eng[h].queue) < MaxQueue
    /\ \E rec \in EngineRecords :
         eng' = [eng EXCEPT ![h] = [@ EXCEPT !.queue = Append(@, rec)]]
    /\ UNCHANGED <<cap, closes, views, stale, histVars, file, sf, last, eqVars, errVars, pollVars, reactor>>

(***************************************************************************)
(* impl<T: Activated + ?Sized> Capture<T>: the other operations.           *)
(***************************************************************************)
\* an operation that is one engine call judged by check_err
Checked(op, h, fn, ret, ok) ==
    \E geterr \in IF ok THEN {NullPtr} ELSE GetErrPtrs :
      last' = CallD(op, h, ret, geterr, check_err(ok, geterr), <<>>,
                    fn \o check_err_calls(ok))

list_datalinks(h) ==
    /\ Usable(h) /\ IsActivated(h)
    /\ \E num \in {-1, 0, 1} :
         Checked("list_datalinks", h, <<"pcap_list_datalinks", "pcap_free_datalinks">>,
                 num, num > 0)
    /\ Touch(h)
    /\ UNCHANGED <<cap, eng, closes, views, histVars, file, sf, eqVars, errVars, pollVars, reactor>>

set_datalink(h) ==
    /\ Usable(h) /\ IsActivated(h)
    /\ \E ret \in {0, -1} :
         Checked("set_datalink", h, <<"pcap_set_datalink">>, ret, ret = 0)
    /\ Touch(h)
    /\ UNCHANGED <<cap, eng, closes, views, histVars, file, sf, eqVars, errVars, pollVars, reactor>>

get_datalink(h) ==
    /\ Usable(h) /\ IsActivated(h)
    /\ last' = Call("get_datalink", h, 0, OkRes, <<>>, <<"pcap_datalink">>)
    /\ Touch(h)
    /\ UNCHANGED <<cap, eng, closes, views, histVars, file, sf, eqVars, errVars, pollVars, reactor>>

direction(h) ==
    /\ Usable(h) /\ IsActivated(h)
    /\ \E ret \in {0, -1} :
         Checked("direction", h, <<"pcap_setdirection">>, ret, ret = 0)
    /\ Touch(h)
    /\ UNCHANGED <<cap, eng, closes, views, histVars, file, sf, eqVars, errVars, pollVars, reactor>>

stats(h) ==
    /\ Usable(h) /\ IsActivated(h)
    /\ \E ret \in {0, -1} :
         Checked("stats", h, <<"pcap_stats">>, ret, ret # -1)
    /\ Touch(h)
    /\ UNCHANGED <<cap, eng, closes, views, histVars, file, sf, eqVars, errVars, pollVars, reactor>>

\* a filter() that attaches and frees whatever the compilation gave
FilterStepsAttachAlways(compiled) == <<"pcap_compile", "pcap_setfilter", "pcap_freecode">>

\* a filter() that attaches the program and does not free it
FilterStepsNoFree(compiled) ==
    IF compiled = -1 THEN <<"pcap_compile">>
    ELSE <<"pcap_compile", "pcap_setfilter">>

\* the engine calls of filter() before any check_err: compile, then attach
\* and free the program; a program that does not compile is neither
\* attached nor freed
FilterSteps(compiled) ==
    IF compiled = -1 THEN <<"pcap_compile">>
    ELSE <<"pcap_compile", "pcap_setfilter", "pcap_freecode">>

\* filter() on a program text, with the statuses of the compilation and of
\* the attachment
filter_with(h, program, compiled, attached) ==
    IF ~CStringNewOk(program)
    THEN /\ last' = Call("filter", h, 0, Err("InvalidInputString"), <<>>, <<>>)
         /\ UNCHANGED eng
    ELSE IF compiled = -1
    THEN /\ Checked("filter", h, FilterSteps(compiled), compiled, FALSE)
         /\ UNCHANGED eng
    ELSE /\ Checked("filter", h, FilterSteps(compiled), attached, attached # -1)
         /\ eng' = [eng EXCEPT ![h] =
                       IF attached # -1 THEN [@ EXCEPT !.filter = program] ELSE @]

filter(h) ==
    /\ Usable(h) /\ IsActivated(h)
    /\ \E program \in InputStrings, compiled \in {0, -1}, attached \in {0, -1} :
         filter_with(h, program, compiled, attached)
    /\ Touch(h)
    /\ UNCHANGED <<cap, closes, views, histVars, file, sf, eqVars, errVars, pollVars, reactor>>

\* Savefile::new: one value wraps the dumper
SavefileNew(s) == [s EXCEPT !.st = "open", !.owners = 1]

\* savefile(): to_str().unwrap() panics on a path that is not UTF-8
savefile_with(h, path, ret) ==
    IF PathToStr(path) = <<>>
    THEN /\ last' = Call("savefile", h, 0, Panic, <<>>, <<>>)
         /\ UNCHANGED sf
    ELSE IF ~CStringNewOk(path)
    THEN /\ last' = Call("savefile", h, 0, Err("InvalidInputString"), <<>>, <<>>)
         /\ UNCHANGED sf
    ELSE /\ ret = "handle" => sf.st = "none"
         /\ Checked("savefile", h, <<"pcap_dump_open">>, 0, ret # "null")
         /\ sf' = IF ret # "null" THEN SavefileNew(sf) ELSE sf

savefile(h) ==
    /\ Usable(h) /\ IsActivated(h)
    /\ \E path \in InputPaths, ret \in {"null", "handle"} : savefile_with(h, path, ret)
    /\ Touch(h)
    /\ UNCHANGED <<cap, eng, closes, views, histVars, file, eqVars, errVars, pollVars, reactor>>

\* a Drop for Savefile that forgets the close
DumpClosesNone(n) == n

\* impl Drop for Savefile: one pcap_dump_close on the wrapped dumper
DumpCloses(n) == n + 1

drop_savefile ==
    /\ sf.st = "open"
    /\ sf' = [sf EXCEPT !.st = "closed", !.closes = DumpCloses(@), !.owners = @ - 1]
    /\ UNCHANGED <<cap, eng, closes, views, stale, histVars, file, last, eqVars, errVars, pollVars, reactor>>

(***************************************************************************)
(* Savefile::write, and the way back: the file a closed save-file leaves   *)
(* is opened with from_file.  The dumper is the engine's: it is handed the *)
(* header and the address of the data, and copies caplen bytes from there. *)
(***************************************************************************)
\* Packet::new is public and so are the fields of Packet: besides the views
\* next() makes, a Packet whose data is longer than its caplen, and one whose
\* data is shorter
WritePackets ==
    { ViewOf(rec) : rec \in EngineRecords }
    \cup { PacketNew(PacketHeader(1, 0, 1, 1), <<7, 8>>),
           PacketNew(PacketHeader(1, 0, 2, 2), <<7>>) }

\* the bytes that may lie in memory after the end of a slice
BytesBeyond == {0, 255}

\* the caplen bytes at packet.data.as_ptr(): the length of the slice is not
\* passed on, so a caplen above it reads past the end of the slice
BytesAt(data, caplen, beyond) ==
    IF caplen <= Len(data) THEN SubSeq(data, 1, caplen) ELSE data \o beyond

\* pcap_dump: one record of the header and the caplen bytes at the address
pcap_dump(packet, beyond) ==
    [hdr |-> packet.header, buf |-> BytesAt(packet.data, packet.header.caplen, beyond)]

\* Savefile::write; a read past the end of the slice may also end the process
write ==
    /\ sf.st = "open" /\ Len(sf.given) < MaxWrites
    /\ \E packet \in WritePackets, crash \in BOOLEAN :
         LET over == packet.header.caplen - Len(packet.data)
         IN  /\ crash => over > 0
             /\ \E beyond \in IF over > 0 /\ ~crash
                              THEN {b \in SeqsUpTo(BytesBeyond, over) : Len(b) = over}
                              ELSE {<<>>} :
                  sf' = IF crash THEN [sf EXCEPT !.st = "crashed"]
                        ELSE [sf EXCEPT !.recs = Append(@, pcap_dump(packet, beyond)),
                                        !.given = Append(@, packet)]
    /\ UNCHANGED <<cap, eng, closes, views, stale, histVars, file, last, eqVars, errVars, pollVars, reactor>>

\* Capture::from_file on the path of a save-file that has been closed: the
\* file holds the records the dumper wrote
from_saved_file(h) ==
    /\ Fresh(h) /\ sf.st = "closed"
    /\ \E path \in {p \in InputPaths : PathToStr(p) # <<>> /\ CStringNewOk(p)} :
         Construct("from_file", h, "Offline", "offline",
                   new_raw(PathToStr(path), "pcap_open_offline", "handle", NullPtr),
                   [recs |-> sf.recs, cut |-> FALSE])

\* PacketStream::new: registers the descriptor with the reactor, which may
\* refuse it; on refusal the capture it was given is dropped
PacketStreamNew(registered) == IF registered THEN OkRes ELSE Err("IoError")

\* a stream() that does not look at the flag
StreamAllowedAlways(nonblock) == TRUE

\* stream(): if !self.nonblock { return Err(NonNonBlock) }
StreamAllowed(nonblock) == nonblock

stream(h) ==
    /\ Usable(h) /\ IsActivated(h)
    /\ \E registered \in BOOLEAN :
         IF ~StreamAllowed(cap[h].nonblock)
         THEN /\ DropCapture(h)
              /\ last' = Call("stream", h, 0, Err("NonNonBlock"), <<>>, <<"pcap_close">>)
              /\ UNCHANGED reactor
         ELSE IF PacketStreamNew(registered).kind = "Ok"
         THEN /\ cap' = [cap EXCEPT ![h] = [MoveSelf(@) EXCEPT !.stream = TRUE]]
              /\ reactor' = [reactor EXCEPT ![h] = [registered |-> TRUE, ready |-> FALSE]]
              /\ last' = Call("stream", h, 0, OkRes, <<>>, <<"pcap_get_selectable_fd">>)
              /\ UNCHANGED <<eng, closes>>
         ELSE /\ DropCapture(h)
              /\ last' = Call("stream", h, 0, PacketStreamNew(registered), <<>>,
                              <<"pcap_get_selectable_fd", "pcap_close">>)
              /\ UNCHANGED reactor
    /\ Touch(h)
    /\ UNCHANGED <<views, histVars, file, sf, eqVars, errVars, pollVars>>

(***************************************************************************)
(* The poll step of a stream: next_noblock().  The reactor is an opaque    *)
(* collaborator: it reports the descriptor read-ready when it chooses to,  *)
(* with or without a packet behind the report.                             *)
(***************************************************************************)
WouldBlock == Err("IoError(WouldBlock)")

\* the reactor marks the registered descriptor read-ready
reactor_ready(h) ==
    /\ reactor[h].registered /\ ~reactor[h].ready
    /\ reactor' = [reactor EXCEPT ![h] = [@ EXCEPT !.ready = TRUE]]
    /\ UNCHANGED <<cap, eng, closes, views, stale, histVars, file, sf, last, eqVars, errVars, pollVars>>

\* a step that asks the engine without asking the reactor
PollReadyAlways(ready) == TRUE

\* fd.poll_read_ready: Pending when the descriptor is not read-ready
PollReady(ready) == ready

\* a step that turns every error of next() into would-block
NoblockResultAllWouldBlock(out, clearOk) ==
    IF out.res.kind = "Ok" THEN [res |-> out.res, pkt |-> out.pkt, clear |-> FALSE]
    ELSE [res |-> WouldBlock, pkt |-> <<>>, clear |-> TRUE]

\* a step that leaves the readiness in place after a timeout
NoblockResultNoClear(out, clearOk) ==
    IF out.res = Err("TimeoutExpired")
    THEN [res |-> WouldBlock, pkt |-> <<>>, clear |-> FALSE]
    ELSE [res |-> out.res, pkt |-> out.pkt, clear |-> FALSE]

\* a step that clears the read-readiness after every result of next()
NoblockResultClearAlways(out, clearOk) ==
    [res |-> IF out.res = Err("TimeoutExpired")
             THEN (IF clearOk THEN WouldBlock ELSE Err("IoError"))
             ELSE out.res,
     pkt |-> out.pkt, clear |-> TRUE]

\* the match on self.next(): a timeout clears the read-readiness (the
\* reactor may refuse, and `?` returns its error) and becomes would-block;
\* clear tells whether clear_read_ready was called
NoblockResult(out, clearOk) ==
    IF out.res = Err("TimeoutExpired")
    THEN [res |-> IF clearOk THEN WouldBlock ELSE Err("IoError"),
          pkt |-> <<>>, clear |-> TRUE]
    ELSE [res |-> out.res, pkt |-> out.pkt, clear |-> FALSE]

\* the Packet of a step is handed to the codec within the step, so no Packet
\* outlives it; a clear_read_ready that fails leaves the readiness either way
next_noblock(h) ==
    /\ cap[h].st = "live" /\ cap[h].stream /\ BorrowFree(h)
    /\ IF ~PollReady(reactor[h].ready)
       THEN /\ last' = Call("next_noblock", h, 0, WouldBlock, <<>>,
                            <<"poll_read_ready">>)
            /\ UNCHANGED <<eng, reactor>>
       ELSE \E retcode \in NextStatuses(h) :
            \E geterr \in IF retcode = PCAP_ERROR THEN GetErrPtrs ELSE {NullPtr},
               clearOk \in IF retcode = 0 THEN BOOLEAN ELSE {TRUE} :
            \E left \in IF clearOk THEN {FALSE} ELSE BOOLEAN :
              LET rec == IF retcode >= 1 THEN <<NextRecord(h)>> ELSE <<>>
                  out == NoblockResult(NextResult(retcode, geterr, rec), clearOk)
              IN  /\ last' = CallD("next_noblock", h, retcode, geterr, out.res, out.pkt,
                                   <<"poll_read_ready">> \o NextCalls(retcode)
                                   \o (IF out.clear THEN <<"clear_read_ready">>
                                       ELSE <<>>))
                  /\ eng' = [eng EXCEPT ![h] =
                                IF retcode >= 1 THEN EngineAdvance(@) ELSE @]
                  /\ reactor' = [reactor EXCEPT ![h] =
                                    IF out.clear THEN [@ EXCEPT !.ready = left] ELSE @]
    /\ UNCHANGED <<cap, closes, views, stale, histVars, file, sf, eqVars, errVars, pollVars>>

(***************************************************************************)
(* The specification of the capture handle.                                *)
(***************************************************************************)
Next ==
    \/ \E h \in Handles : from_device(h)
    \/ \E h \in Handles : from_file(h)
    \/ \E h \in Handles : from_raw_fd(h)
    \/ \E h \in Handles : dead(h)
    \/ \E h \in Handles : setter(h)
    \/ \E h \in Handles : open(h)
    \/ \E h \in Handles : sendpacket(h)
    \/ \E h \in Handles : setnonblock(h)
    \/ \E h \in Handles : as_raw_fd(h)
    \/ \E h \in Handles : next(h)
    \/ \E h \in Handles : list_datalinks(h)
    \/ \E h \in Handles : set_datalink(h)
    \/ \E h \in Handles : get_datalink(h)
    \/ \E h \in Handles : direction(h)
    \/ \E h \in Handles : stats(h)
    \/ \E h \in Handles : filter(h)
    \/ \E h \in Handles : savefile(h)
    \/ \E h \in Handles : stream(h)
    \/ \E h \in Handles : next_noblock(h)
    \/ \E h \in Handles : reactor_ready(h)
    \/ \E h \in Handles : into_dyn(h)
    \/ \E h \in Handles : drop(h)
    \/ \E h \in Handles : clone_packet(h)
    \/ \E h \in Handles : drop_packet(h)
    \/ \E h \in Handles : packet_arrives(h)
    \/ drop_savefile

Spec == Init /\ [][Next]_vars

(***************************************************************************)
(* The specification of the save-file round trip: a save-file is opened    *)
(* from a Dead handle, written to and closed, and the file is read back.   *)
(***************************************************************************)
NextSave ==
    \/ \E h \in Handles : dead(h)
    \/ \E h \in Handles : savefile(h)
    \/ write
    \/ drop_savefile
    \/ \E h \in AllHandles : drop(h)
    \/ from_saved_file(SaveReader)
    \/ next(SaveReader)
    \/ drop_packet(SaveReader)

SpecSave == Init /\ [][NextSave]_vars

(***************************************************************************)
(* Equality of Packet views: #[derive(PartialEq)] on Packet compares the   *)
(* headers with PacketHeader::eq and the data slices byte by byte.         *)
(***************************************************************************)
\* a header equality that leaves the sub-second units out
PacketHeaderEqNoUsec(a, b) ==
    /\ a.tv_sec = b.tv_sec /\ a.caplen = b.caplen /\ a.len = b.len

PacketHeaderEq(a, b) ==
    /\ a.tv_sec = b.tv_sec /\ a.tv_usec = b.tv_usec
    /\ a.caplen = b.caplen /\ a.len = b.len

\* equality of byte slices: the same length and the same byte at each index
SliceEq(x, y) == Len(x) = Len(y) /\ \A i \in 1..Len(x) : x[i] = y[i]

PacketEq(p, q) == PacketHeaderEq(p.header, q.header) /\ SliceEq(p.data, q.data)

\* Packet::new is public: any header goes with any data
EqPackets ==
    { PacketNew(PacketHeader(sec, usec, caplen, len), data) :
        sec \in 0..MaxField, usec \in 0..MaxField, caplen \in 0..MaxField,
        len \in 0..MaxField, data \in SeqsUpTo({7, 8}, MaxDataLen) }

InitEq ==
    /\ InitCapture
    /\ file = NoFile
    /\ eqA \in EqPackets /\ eqB \in EqPackets /\ eqRes = <<>>
    /\ errPtr = NullPtr /\ errRes = <<>>

packet_eq ==
    /\ eqRes = <<>>
    /\ eqRes' = <<PacketEq(eqA, eqB)>>
    /\ UNCHANGED <<cap, eng, closes, views, stale, histVars, file, sf, last, eqA, eqB, reactor,
                 errVars, pollVars>>

NextEq == packet_eq

SpecEq == InitEq /\ [][NextEq]_vars

(***************************************************************************)
(* Error::new on a diagnostic pointer: null, or a terminated text.         *)
(***************************************************************************)
\* the texts a pointer may lead to: CStr::from_ptr ends at the terminator,
\* so no text holds a 0
ErrTexts == SeqsUpTo({101, 195, 169, 255}, MaxText)

ErrPtrs == {NullPtr} \cup {CStr(t) : t \in ErrTexts}

InitErr ==
    /\ InitCapture
    /\ file = NoFile
    /\ eqA = NoPacket /\ eqB = NoPacket /\ eqRes = <<>>
    /\ errPtr \in ErrPtrs /\ errRes = <<>>

error_new ==
    /\ errRes = <<>>
    /\ errRes' = <<ErrorNew(errPtr)>>
    /\ UNCHANGED <<cap, eng, closes, views, stale, histVars, file, sf, last, eqVars,
                   reactor, errPtr, pollVars>>

NextErr == error_new

SpecErr == InitErr /\ [][NextErr]_vars

(***************************************************************************)
(* The poll step of the stream, in the steps the reactor and the engine    *)
(* can come between: the readiness check with the call of next(), and the  *)
(* clearing of the read-readiness after a timeout.  The descriptor is      *)
(* registered edge-triggered: the OS reports an event when a packet makes  *)
(* it readable, the reactor's turn takes the event into the registration's *)
(* readiness and wakes the task whose waker is registered.                 *)
(***************************************************************************)
MaxPackets == 2

\* PollEvented::poll_read_ready on the cached readiness r and the
\* registration g: a cached readiness answers ready; else the registration's
\* readiness is taken into the cache; else the task's waker is registered
PollReadReady(r, g) ==
    IF r.ready
    THEN [ready |-> TRUE, reactor |-> r,
          registration |-> [g EXCEPT !.readiness = FALSE]]
    ELSE IF g.readiness
    THEN [ready |-> TRUE, reactor |-> [r EXCEPT !.ready = TRUE],
          registration |-> [g EXCEPT !.readiness = FALSE]]
    ELSE [ready |-> FALSE, reactor |-> r,
          registration |-> [g EXCEPT !.waker = TRUE]]

\* PollEvented::clear_read_ready: the cached readiness is cleared and the
\* readiness polled again; what arrived since is taken and the task is woken
ClearReadReady(r, g) == PollReadReady([r EXCEPT !.ready = FALSE], g)

\* the waker: a parked task is scheduled, a task inside a step is polled again
Wake(t) ==
    IF t.pc = "parked" THEN [t EXCEPT !.pc = "ready"]
    ELSE IF t.pc = "clearing" THEN [t EXCEPT !.woken = TRUE]
    ELSE t

\* PacketStream::poll_next on the result of next_noblock: would-block is
\* Pending, a packet is decoded and yielded, any other error ends the stream
PollNext(t, res) ==
    IF res = WouldBlock
    THEN [t EXCEPT !.pc = IF t.woken THEN "ready" ELSE "parked", !.woken = FALSE]
    ELSE IF res.kind = "Ok"
    THEN [t EXCEPT !.pc = "ready", !.woken = FALSE, !.yields = @ + 1]
    ELSE [t EXCEPT !.pc = "ended", !.woken = FALSE]

StreamLive(h) == cap[h].st = "live" /\ cap[h].stream

\* a packet reaches the engine's queue and the OS reports the descriptor
\* readable
packet_readable(h) ==
    /\ StreamLive(h) /\ eng[h].st = "activated"
    /\ task[h].yields + Len(eng[h].queue) < MaxPackets
    /\ \E rec \in EngineRecords :
         eng' = [eng EXCEPT ![h] = [@ EXCEPT !.queue = Append(@, rec)]]
    /\ registration' = [registration EXCEPT ![h] = [@ EXCEPT !.event = TRUE]]
    /\ task' = [task EXCEPT ![h] =
                   [@ EXCEPT !.raced = @ \/ task[h].pc = "clearing"]]
    /\ UNCHANGED <<cap, closes, views, stale, histVars, file, sf, last, eqVars,
                   errVars, reactor>>

\* the OS reports the descriptor readable with no packet behind it
spurious_event(h) ==
    /\ StreamLive(h) /\ ~registration[h].event
    /\ registration' = [registration EXCEPT ![h] = [@ EXCEPT !.event = TRUE]]
    /\ UNCHANGED <<cap, eng, closes, views, stale, histVars, file, sf, last, eqVars,
                   errVars, reactor, task>>

\* the reactor's turn
reactor_turn(h) ==
    /\ StreamLive(h) /\ registration[h].event
    /\ registration' = [registration EXCEPT ![h] =
                           [event |-> FALSE, readiness |-> TRUE, waker |-> FALSE]]
    /\ task' = [task EXCEPT ![h] = IF registration[h].waker THEN Wake(@) ELSE @]
    /\ UNCHANGED <<cap, eng, closes, views, stale, histVars, file, sf, last, eqVars,
                   errVars, reactor>>

\* next_noblock up to the result of self.next(): fd.poll_read_ready, and
\* when it is ready self.next(); a result that is followed by
\* clear_read_ready leaves the task before that call
poll_step(h) ==
    /\ StreamLive(h) /\ BorrowFree(h) /\ task[h].pc = "ready"
    /\ LET pr == PollReadReady(reactor[h], registration[h])
       IN  /\ reactor' = [reactor EXCEPT ![h] = pr.reactor]
           /\ registration' = [registration EXCEPT ![h] = pr.registration]
           /\ IF ~PollReady(pr.ready)
              THEN /\ last' = Call("next_noblock", h, 0, WouldBlock, <<>>,
                                   <<"poll_read_ready">>)
                   /\ task' = [task EXCEPT ![h] = PollNext(@, WouldBlock)]
                   /\ UNCHANGED eng
              ELSE \E retcode \in NextStatuses(h) :
                   \E geterr \in IF retcode = PCAP_ERROR THEN GetErrPtrs ELSE {NullPtr} :
                     LET rec == IF retcode >= 1 THEN <<NextRecord(h)>> ELSE <<>>
                         raw == NextResult(retcode, geterr, rec)
                         out == NoblockResult(raw, TRUE)
                         calls == <<"poll_read_ready">> \o NextCalls(retcode)
                     IN  /\ eng' = [eng EXCEPT ![h] =
                                       IF retcode >= 1 THEN EngineAdvance(@) ELSE @]
                         /\ IF out.clear
                            THEN /\ last' = CallD("next", h, retcode, geterr, raw.res,
                                                  raw.pkt, calls)
                                 /\ task' = [task EXCEPT ![h] =
                                                [@ EXCEPT !.pc = "clearing"]]
                            ELSE /\ last' = CallD("next_noblock", h, retcode, geterr,
                                                  out.res, out.pkt, calls)
                                 /\ task' = [task EXCEPT ![h] = PollNext(@, out.res)]
    /\ UNCHANGED <<cap, closes, views, stale, histVars, file, sf, eqVars, errVars>>

\* the rest of next_noblock: fd.clear_read_ready(..)?, which may fail, and
\* the result of the step
poll_clear(h) ==
    /\ StreamLive(h) /\ task[h].pc = "clearing"
    /\ \E clearOk \in BOOLEAN :
         LET out == NoblockResult([res |-> last.res, pkt |-> last.pkt], clearOk)
             cr == ClearReadReady(reactor[h], registration[h])
         IN  /\ reactor' = [reactor EXCEPT ![h] =
                               IF clearOk THEN cr.reactor ELSE [@ EXCEPT !.ready = FALSE]]
             /\ registration' = [registration EXCEPT ![h] =
                                    IF clearOk THEN cr.registration ELSE @]
             /\ task' = [task EXCEPT ![h] =
                            PollNext([@ EXCEPT !.woken = @ \/ (clearOk /\ cr.ready)],
                                     out.res)]
             /\ last' = CallD("next_noblock", h, last.status, last.diag, out.res,
                              out.pkt, last.calls \o <<"clear_read_ready">>)
    /\ UNCHANGED <<cap, eng, closes, views, stale, histVars, file, sf, eqVars, errVars>>

NextPoll ==
    \E h \in Handles :
      \/ from_device(h)
      \/ open(h)
      \/ setnonblock(h)
      \/ stream(h)
      \/ drop(h)
      \/ packet_readable(h)
      \/ spurious_event(h)
      \/ reactor_turn(h)
      \/ poll_step(h)
      \/ poll_clear(h)

\* the scheduler polls a task that is scheduled or inside a step, and the
\* reactor takes a turn when the OS has reported an event
FairPoll ==
    /\ Init /\ [][NextPoll]_vars
    /\ \A h \in Handles :
         /\ WF_vars(poll_step(h))
         /\ WF_vars(poll_clear(h))
         /\ WF_vars(reactor_turn(h))

(***************************************************************************)
(* The properties.                                                         *)
(***************************************************************************)
ActivatedOps ==
    {"next", "filter", "stats", "list_datalinks", "get_datalink", "set_datalink",
     "direction", "savefile", "stream"}

FileBacked(h) == origin[h] \in {"from_file", "from_raw_fd"}

\* the Packet views of the records of the file, in file order
FileViews == [i \in 1..Len(file.recs) |-> ViewOf(file.recs[i])]

\* the error a diagnostic text gives when it is valid UTF-8
IsPcapErrorOf(res, diag) == res.kind = "PcapError" /\ res.msg = diag.bytes

\* C1: every handle an entry point returned is closed exactly once over its
\* life: no handle is closed twice, no call closes twice, a handle whose
\* owning value is gone (dropped, or consumed by a failed open(),
\* setnonblock() or stream()) has been closed once, and a handle whose owning
\* value is alive has not been closed.
C1_ClosedExactlyOnce ==
    /\ Count(last.calls, "pcap_close") <= 1
    /\ \A h \in Handles :
         /\ closes[h] <= 1
         /\ cap[h].st = "dropped" <=> closes[h] = 1
         /\ eng[h].st = "closed" <=> closes[h] = 1
         /\ cap[h].st = "live" => eng[h].st \notin {"absent", "closed"}
         /\ cap[h].st = "none" => eng[h].st = "absent"

C1_Witness ==
    /\ last.op = "setnonblock" /\ last.res.kind # "Ok"
    /\ cap[last.h].st = "dropped" /\ closes[last.h] = 1

\* C2: on a value in state Inactive no Activated-only operation is enabled,
\* and an Activated-only operation on a handle made by from_device comes
\* after a successful open() of that handle.
C2_InactiveGated ==
    /\ \A h \in Handles :
         cap[h].st = "live" /\ cap[h].tag = "Inactive" =>
           /\ ~ENABLED next(h) /\ ~ENABLED filter(h) /\ ~ENABLED stats(h)
           /\ ~ENABLED list_datalinks(h) /\ ~ENABLED get_datalink(h)
           /\ ~ENABLED set_datalink(h) /\ ~ENABLED direction(h)
           /\ ~ENABLED savefile(h) /\ ~ENABLED stream(h)
    /\ last.op \in ActivatedOps /\ origin[last.h] = "from_device" =>
         /\ opened[last.h]
         /\ last.eng = "activated"
         /\ last.tag \in {"Active", "dyn"}

C2_Witness ==
    /\ last.op = "next" /\ origin[last.h] = "from_device" /\ opened[last.h]

\* C3: a configuration setter is issued only on an Inactive value whose
\* handle the engine has not activated and on which open() has not
\* succeeded; sendpacket and setnonblock only on an Active value whose
\* handle is activated.
C3_CallsMatchState ==
    /\ last.op \in Setters =>
         last.tag = "Inactive" /\ last.eng = "created" /\ ~opened[last.h]
    /\ last.op \in {"sendpacket", "setnonblock"} =>
         last.tag = "Active" /\ last.eng = "activated"

C3_Witness ==
    /\ last.op = "sendpacket" /\ eng[last.h].tmo = PosTimeout /\ opened[last.h]

\* C4 as stated: open() makes one activate call; on status 0 the value is
\* Active over the same, unclosed handle; otherwise the result is PcapError
\* with the engine's text and the handle is closed.
C4_Original ==
    last.op = "open" =>
      /\ Count(last.calls, "pcap_activate") = 1
      /\ IF last.status = 0
         THEN /\ last.res = OkRes
              /\ cap[last.h].st = "live" /\ cap[last.h].tag = "Active"
              /\ closes[last.h] = 0 /\ eng[last.h].st = "activated"
         ELSE /\ IsPcapErrorOf(last.res, last.diag)
              /\ cap[last.h].st = "dropped" /\ closes[last.h] = 1

\* C4, amended: as stated, but the error is PcapError with the engine's
\* text only when that text is valid UTF-8, and MalformedError when not.
C4_OpenOutcome ==
    last.op = "open" =>
      /\ Count(last.calls, "pcap_activate") = 1
      /\ IF last.status = 0
         THEN /\ last.res = OkRes
              /\ cap[last.h].st = "live" /\ cap[last.h].tag = "Active"
              /\ closes[last.h] = 0 /\ eng[last.h].st = "activated"
         ELSE /\ IF Utf8Valid(last.diag.bytes)
                 THEN IsPcapErrorOf(last.res, last.diag)
                 ELSE last.res = Err("MalformedError")
              /\ cap[last.h].st = "dropped" /\ closes[last.h] = 1

C4_Witness ==
    /\ last.op = "open" /\ last.status = -1 /\ last.res.kind = "PcapError"
    /\ cap[last.h].st = "dropped"

\* the parts of C5 that do not depend on the engine's text
C5_Mapping ==
    /\ Count(last.calls, "pcap_next_ex") = 1
    /\ last.status >= 1 =>
         /\ last.res = OkRes /\ Len(last.pkt) = 1
         /\ Len(last.pkt[1].data) = last.pkt[1].header.caplen
         /\ last.pkt[1] \in {ViewOf(r) : r \in EngineRecords}
         /\ eng[last.h].st = "offline" => last.pkt[1] = FileViews[eng[last.h].pos]
    /\ last.status < 1 => last.pkt = <<>>
    /\ last.status = 0 => last.res = Err("TimeoutExpired")
    /\ last.status = -2 => last.res = Err("NoMorePackets")

\* C5 as stated: one retrieval call per next(), and status -1 gives PcapError
\* with the engine's text.
C5_Original ==
    last.op = "next" =>
      /\ C5_Mapping
      /\ last.status = -1 => IsPcapErrorOf(last.res, last.diag)

\* C5, amended: as stated, but status -1 gives PcapError with the engine's
\* text only when that text is valid UTF-8, and MalformedError when not.
C5_NextMapping ==
    last.op = "next" =>
      /\ C5_Mapping
      /\ last.status = -1 =>
           IF Utf8Valid(last.diag.bytes)
           THEN IsPcapErrorOf(last.res, last.diag)
           ELSE last.res = Err("MalformedError")

C5_Witness ==
    /\ last.op = "next" /\ last.status = 1
    /\ last.pkt[1].header.caplen < last.pkt[1].header.len

\* C6 as stated: every negative status but -2 gives PcapError with the
\* engine's text.
C6_Original ==
    last.op = "next" /\ last.status < 0 /\ last.status # -2 =>
      IsPcapErrorOf(last.res, last.diag)

\* C6, amended: status -1 gives the error built from the engine's text
\* (PcapError with the text when it is valid UTF-8, MalformedError when
\* not); any other negative status but -2 makes next() panic, with no
\* packet and no error value.
C6_NegativeStatus ==
    last.op = "next" /\ last.status < 0 /\ last.status # -2 =>
      /\ last.pkt = <<>>
      /\ IF last.status = -1
         THEN /\ Utf8Valid(last.diag.bytes) => IsPcapErrorOf(last.res, last.diag)
              /\ ~Utf8Valid(last.diag.bytes) => last.res.kind = "MalformedError"
         ELSE last.res.kind = "Panic"

C6_Witness ==
    /\ last.op = "next" /\ last.status = -1
    /\ last.res = PcapError(<<101>>)

\* C7: on a file-backed handle next() returns the records of the file in
\* file order, each once; when the file is whole, next() returns a packet or
\* NoMorePackets, NoMorePackets only after all the records, and once it has
\* returned NoMorePackets no further packet.
C7_FileOrder ==
    \A h \in Handles :
      FileBacked(h) =>
        /\ Len(delivered[h]) <= Len(FileViews)
        /\ delivered[h] = SubSeq(FileViews, 1, Len(delivered[h]))
        /\ eof[h] => delivered[h] = FileViews
        /\ last.op = "next" /\ last.h = h /\ ~file.cut =>
             /\ last.res \in {OkRes, Err("NoMorePackets")}
             /\ last.res = OkRes => last.pkt = <<delivered[h][Len(delivered[h])]>>
             /\ last.res = Err("NoMorePackets") => eof[h] /\ delivered[h] = FileViews

C7_Witness ==
    \E h \in Handles :
      /\ FileBacked(h) /\ eof[h] /\ Len(delivered[h]) = 2
      /\ delivered[h][1] # delivered[h][2]
      /\ last.op = "next" /\ last.res = Err("NoMorePackets")

\* C8: a next() on a live handle with a positive read timeout and no packet
\* queued, to which the engine answers with its timeout status, returns
\* TimeoutExpired and changes nothing of the handle: the owning value, the
\* engine's side and the closes are the same, no Packet is alive, and a
\* further next() can be made.
C8_TimeoutFrame ==
    [][\A h \in Handles :
         (/\ next(h)
          /\ eng[h].st = "activated" /\ eng[h].tmo > 0 /\ eng[h].queue = <<>>
          /\ last'.status = 0)
         => /\ last'.res = Err("TimeoutExpired")
            /\ cap'[h] = cap[h] /\ eng'[h] = eng[h] /\ closes'[h] = closes[h]
            /\ views'[h] = <<>>
            /\ cap'[h].st = "live" /\ ~cap'[h].stream
            /\ cap'[h].tag \in {"Active", "dyn"}]_vars

C8_Witness ==
    /\ last.op = "next" /\ last.res = Err("TimeoutExpired")
    /\ eng[last.h].tmo > 0 /\ ~eng[last.h].nonblock /\ eng[last.h].queue = <<>>
    /\ cap[last.h].st = "live"

\* C9 as stated: at most one Packet view exists per handle, and none was
\* alive across a later call on its handle.
C9_Original ==
    \A h \in Handles : Len(views[h]) <= 1 /\ ~stale[h]

\* C9, amended: no Packet view was alive across a later call on its handle
\* or its drop, and every Packet view alive is the one the most recent
\* next() on its handle returned or a clone of it (Packet is Clone, so there
\* can be more than one).
C9_ViewsFresh ==
    \A h \in Handles :
      /\ ~stale[h]
      /\ views[h] # <<>> =>
           /\ last.op = "next" /\ last.h = h /\ last.res = OkRes
           /\ cap[h].st = "live"
           /\ \A i \in 1..Len(views[h]) : views[h][i] = last.pkt[1]

C9_Witness ==
    \E h \in Handles : Len(views[h]) = 2 /\ last.op = "next"

\* C10: two Packet views compare equal exactly when their headers agree on
\* seconds, sub-second units, caplen and len and their data are the same
\* bytes; caplen greater than len is compared like any other header.
C10_PacketEq ==
    eqRes # <<>> =>
      (eqRes[1] <=>
         /\ eqA.header.tv_sec = eqB.header.tv_sec
         /\ eqA.header.tv_usec = eqB.header.tv_usec
         /\ eqA.header.caplen = eqB.header.caplen
         /\ eqA.header.len = eqB.header.len
         /\ eqA.data = eqB.data)

C10_Witness ==
    /\ eqRes = <<TRUE>> /\ eqA.header.caplen > eqA.header.len /\ eqA.data # <<>>

\* C11: stream() on a handle whose non-blocking flag is false returns
\* NonNonBlock at once: it does not ask the engine for a selectable
\* descriptor, registers nothing with the reactor and makes no stream; the
\* only engine call is the close of the handle it consumed.
C11_StreamNeedsNonblock ==
    last.op = "stream" /\ ~cap[last.h].nonblock =>
        /\ last.res = Err("NonNonBlock")
        /\ Count(last.calls, "pcap_get_selectable_fd") = 0
        /\ last.calls = <<"pcap_close">>
        /\ ~reactor[last.h].registered
        /\ ~cap[last.h].stream

C11_Witness ==
    /\ last.op = "stream" /\ ~cap[last.h].nonblock
    /\ last.res = Err("NonNonBlock")
    /\ opened[last.h]

\* what was read back so far is what was written, in the order written, and
\* the reading ends, with NoMorePackets, only after all of it
ReadBackMatches(h) ==
    /\ Len(delivered[h]) <= Len(sf.given)
    /\ \A i \in 1..Len(delivered[h]) : PacketEq(delivered[h][i], sf.given[i])
    /\ last.op = "next" /\ last.h = h /\ last.res.kind # "Ok" =>
         last.res = Err("NoMorePackets") /\ Len(delivered[h]) = Len(sf.given)
    /\ eof[h] => Len(delivered[h]) = Len(sf.given)

\* C12: the packets written with Savefile::write to a save-file opened from a
\* Dead handle are, after the save-file is closed and its file opened with
\* from_file, the packets next() returns: equal in header and data, in the
\* order written, and after the last of them next() returns NoMorePackets.
C12_RoundTrip ==
    origin[SaveReader] = "from_file" => ReadBackMatches(SaveReader)

\* the same for Packet values whose data has exactly caplen bytes, as every
\* Packet that next() returns has
C12_RoundTripOfViews ==
    /\ origin[SaveReader] = "from_file"
    /\ \A i \in 1..Len(sf.given) : Len(sf.given[i].data) = sf.given[i].header.caplen
    => ReadBackMatches(SaveReader)

C12_ViewsReadBack ==
    /\ origin[SaveReader] = "from_file" /\ eof[SaveReader]
    /\ Len(sf.given) = MaxWrites /\ Len(delivered[SaveReader]) = MaxWrites
    /\ sf.given[1] # sf.given[2]

\* the record of an engine rejection of filter(), direction() or
\* set_datalink(); a step that leaves such a record and changes it is one of
\* these calls
Rejected(l) == l.op \in {"filter", "direction", "set_datalink"} /\ l.status = -1

\* C13 as stated: a rejected filter(), direction() or set_datalink() returns
\* the engine error that carries the engine's diagnostic text.
C13_Original == Rejected(last) => IsPcapErrorOf(last.res, last.diag)

\* C13: when the engine rejects filter(), direction() or set_datalink(), the
\* operation returns PcapError with the engine's diagnostic text when that
\* text is valid UTF-8 and MalformedError when it is not; the handle stays as
\* it was (open, same tag, same non-blocking flag, not closed), the installed
\* filter is unchanged, and a filter() whose compilation failed made no
\* attach call.
C13_RejectionFrame ==
    [][\A h \in Handles :
         /\ /\ Rejected(last')
            /\ last' # last \/ filter(h) \/ direction(h) \/ set_datalink(h)
            => /\ Utf8Valid(last'.diag.bytes) => IsPcapErrorOf(last'.res, last'.diag)
               /\ ~Utf8Valid(last'.diag.bytes) => last'.res = Err("MalformedError")
               /\ ~last'.diag.null
               /\ cap'[h] = cap[h] /\ cap'[h].st = "live"
               /\ eng'[h] = eng[h] /\ closes'[h] = closes[h]
               /\ Count(last'.calls, "pcap_close") = 0
         /\ \A program \in InputStrings, attached \in {0, -1} :
              /\ last'.op = "filter" /\ last'.status = -1
              /\ filter_with(h, program, -1, attached)
              => /\ Count(last'.calls, "pcap_setfilter") = 0
                 /\ eng'[h].filter = eng[h].filter
      ]_vars

C13_Witness ==
    /\ last.op = "filter" /\ last.status = -1
    /\ last.calls = <<"pcap_compile", "pcap_geterr">>
    /\ eng[last.h].filter # <<>>

\* C14: every open capture handle and every open save-file handle is owned by
\* exactly one live value, and a handle that is not open by none: the
\* setters, open(), setnonblock(), stream() and the conversion to the
\* type-erased view leave no second value that can issue engine calls.
C14_OneOwner ==
    /\ \A h \in Handles :
         /\ cap[h].owners = (IF cap[h].st = "live" THEN 1 ELSE 0)
         /\ eng[h].st \in {"created", "activated", "offline", "dead"} <=> cap[h].owners = 1
    /\ sf.owners = (IF sf.st = "open" THEN 1 ELSE 0)

C14_Witness ==
    /\ last.op = "into_dyn" /\ opened[last.h]
    /\ cap[last.h].nonblock /\ eng[last.h].tmo > 0
    /\ cap[last.h].owners = 1
    /\ sf.st = "open" /\ sf.owners = 1

\* C15: a handle becomes a type-erased view only from Active, Offline or
\* Dead, never from Inactive; the conversion keeps the handle and its
\* non-blocking flag, makes no engine call and does not close the handle.
C15_ErasedView ==
    /\ [](\A h \in Handles : cap[h].tag = "dyn" => eng[h].st # "created")
    /\ [][\A h \in Handles :
            /\ IsInactive(h) => ~into_dyn(h)
            /\ cap'[h].tag = "dyn" /\ cap[h].tag # "dyn" =>
                 /\ into_dyn(h)
                 /\ cap[h].tag \in {"Active", "Offline", "Dead"}
                 /\ cap'[h].nonblock = cap[h].nonblock
                 /\ cap'[h].st = "live"
                 /\ eng' = eng /\ closes' = closes
                 /\ last'.calls = <<>> /\ last'.res = OkRes
         ]_vars

C15_Witness ==
    /\ last.op = "into_dyn" /\ cap[last.h].tag = "dyn"
    /\ cap[last.h].nonblock /\ eng[last.h].st = "activated"

\* C16: a retrieval status outside {>= 1, 0, -1, -2} is never turned into Ok
\* or passed over by next(): the call panics, no Packet is produced and the
\* engine's buffer is not advanced.
C16_UndocumentedStatus ==
    /\ last.op \in {"next", "next_noblock"}
    /\ last.status < PCAP_ERROR_BREAK
    => /\ last.res = Panic
       /\ last.pkt = <<>>
       /\ views[last.h] = <<>>

C16_Witness ==
    /\ last.op = "next" /\ last.status = UndocumentedStatus
    /\ last.res = Panic

\* C17: a poll step in which the reactor reports the descriptor not
\* read-ready returns IoError(WouldBlock) without a retrieval call and
\* without touching the engine; a poll step calls the engine, once, only when
\* the reactor reported ready.
C17_NotReadyNoEngine ==
    [][\A h \in Handles :
         last'.op = "next_noblock" /\ next_noblock(h) =>
           /\ ~reactor[h].ready =>
                /\ last'.res = WouldBlock
                /\ Count(last'.calls, "pcap_next_ex") = 0
                /\ last'.calls = <<"poll_read_ready">>
                /\ eng' = eng /\ reactor' = reactor
           /\ Count(last'.calls, "pcap_next_ex") > 0 => reactor[h].ready
           /\ Count(last'.calls, "pcap_next_ex") <= 1
      ]_vars

C17_Witness ==
    /\ last.op = "next_noblock" /\ last.calls = <<"poll_read_ready">>
    /\ last.res = WouldBlock
    /\ eng[last.h].queue # <<>>

\* a poll step in which the reactor reported ready and next() timed out
SpuriousWake(l) ==
    l.op = "next_noblock" /\ l.status = 0 /\ Count(l.calls, "pcap_next_ex") = 1

\* C18 as stated: after a spurious wake the step clears the read-readiness
\* and returns would-block.
C18_Original ==
    SpuriousWake(last) =>
        /\ Count(last.calls, "clear_read_ready") = 1
        /\ last.res = WouldBlock

\* C18: in a poll step where the reactor reports ready and next() returns
\* TimeoutExpired, the step asks the reactor to clear the read-readiness and
\* returns would-block, or the I/O error of the clear when the reactor
\* refuses it; after a clear that succeeded the descriptor is not read-ready,
\* it becomes read-ready again only by a readiness event of the reactor, and
\* until then a poll step makes no retrieval call.
C18_SpuriousWakeCleared ==
    [][\A h \in Handles :
         /\ SpuriousWake(last') /\ reactor[h].ready /\ next_noblock(h) =>
              /\ last'.calls = <<"poll_read_ready", "pcap_next_ex", "clear_read_ready">>
              /\ last'.res \in {WouldBlock, Err("IoError")}
              /\ last'.res = WouldBlock => ~reactor'[h].ready
              /\ last'.pkt = <<>> /\ eng' = eng
         /\ ~reactor[h].ready /\ reactor'[h].ready => reactor_ready(h)
         /\ last'.op = "next_noblock" /\ ~reactor[h].ready /\ next_noblock(h) =>
              Count(last'.calls, "pcap_next_ex") = 0 /\ ~reactor'[h].ready
      ]_vars

C18_Witness ==
    /\ SpuriousWake(last) /\ last.res = WouldBlock
    /\ ~reactor[last.h].ready /\ reactor[last.h].registered

\* C19: in a poll step where the reactor reports ready, a successful next()
\* yields that packet, and an error of next() other than TimeoutExpired is
\* returned as next() made it: the read-readiness is not cleared and the
\* error is not turned into would-block.
C19_ReadyPassThrough ==
    [][\A h \in Handles :
         /\ last'.op = "next_noblock" /\ last'.status # 0
         /\ reactor[h].ready /\ next_noblock(h)
         =>
           /\ last'.status >= 1 =>
                /\ last'.res = OkRes
                /\ last'.pkt = <<ViewOf(Head(eng[h].queue))>>
                /\ eng'[h].queue = Tail(eng[h].queue)
           /\ last'.status = PCAP_ERROR =>
                /\ Utf8Valid(last'.diag.bytes) => IsPcapErrorOf(last'.res, last'.diag)
                /\ ~Utf8Valid(last'.diag.bytes) => last'.res = Err("MalformedError")
           /\ last'.status = PCAP_ERROR_BREAK => last'.res = Err("NoMorePackets")
           /\ last'.res # WouldBlock
           /\ Count(last'.calls, "clear_read_ready") = 0
           /\ reactor' = reactor
      ]_vars

C19_Witness ==
    /\ last.op = "next_noblock" /\ last.status = PCAP_ERROR
    /\ last.res.kind = "PcapError"
    /\ reactor[last.h].ready

C21_FreedOnce ==
    [][\A h \in Handles :
       \A program \in InputStrings, compiled \in {0, -1}, attached \in {0, -1} :
         /\ last'.op = "filter" /\ CStringNewOk(program)
         /\ filter_with(h, program, compiled, attached)
         => IF compiled = -1
            THEN /\ Count(last'.calls, "pcap_setfilter") = 0
                 /\ Count(last'.calls, "pcap_freecode") = 0
            ELSE /\ Count(last'.calls, "pcap_freecode") = 1
                 /\ Count(last'.calls, "pcap_setfilter") = 1
                 /\ SubSeq(last'.calls, 1, 3) =
                      <<"pcap_compile", "pcap_setfilter", "pcap_freecode">>
                 /\ attached = -1 <=> last'.res.kind # "Ok"
      ]_vars

C21_Witness ==
    /\ last.op = "filter" /\ last.res.kind # "Ok"
    /\ last.calls = <<"pcap_compile", "pcap_setfilter", "pcap_freecode", "pcap_geterr">>

\* C22: Error::new gives PcapError with the text for a pointer to valid
\* UTF-8, PcapError with the empty text for a null pointer (never
\* InvalidString), and MalformedError, not PcapError, for a pointer to bytes
\* that are not valid UTF-8.
C22_ErrorNew ==
    errRes # <<>> =>
        /\ errPtr.null => errRes[1] = PcapError(<<>>)
        /\ ~errPtr.null /\ Utf8Valid(errPtr.bytes) => errRes[1] = PcapError(errPtr.bytes)
        /\ ~errPtr.null /\ ~Utf8Valid(errPtr.bytes) => errRes[1] = Err("MalformedError")
        /\ errRes[1].kind # "InvalidString"

C22_Witness == errPtr.null /\ errRes = <<PcapError(<<>>)>>

\* a string with an embedded terminator
HasNul(str) == \E i \in 1..Len(str) : str[i] = 0

\* C23: a caller-supplied string with an embedded terminator (the device name
\* of from_device, the path of from_file, the program of filter) makes the
\* operation return InvalidInputString, not PcapError, with no engine call
\* made; no handle is made by the entry points, and filter() leaves the
\* handle and its installed filter as they were.
C23_EmbeddedNul ==
    [][\A h \in Handles :
         /\ \A name \in InputStrings, ret \in {"null", "handle"} :
              /\ last'.op = "from_device" /\ HasNul(name)
              /\ Fresh(h) /\ from_device_with(h, name, ret)
              => /\ last'.res = Err("InvalidInputString") /\ last'.calls = <<>>
                 /\ cap' = cap /\ eng' = eng /\ closes' = closes
         /\ \A path \in InputPaths, ret \in {"null", "handle", "crash"} :
              /\ last'.op = "from_file" /\ HasNul(path)
              /\ Fresh(h) /\ from_file_with(h, path, ret)
              => /\ last'.res = Err("InvalidInputString") /\ last'.calls = <<>>
                 /\ cap' = cap /\ eng' = eng /\ closes' = closes
         /\ \A program \in InputStrings, compiled \in {0, -1}, attached \in {0, -1} :
              /\ last'.op = "filter" /\ HasNul(program)
              /\ filter_with(h, program, compiled, attached)
              => /\ last'.res = Err("InvalidInputString") /\ last'.calls = <<>>
                 /\ cap' = cap /\ eng' = eng /\ closes' = closes
      ]_vars

C23_Witness ==
    /\ last.op = "filter" /\ last.res = Err("InvalidInputString")
    /\ last.calls = <<>>
    /\ eng[last.h].filter # <<>> /\ cap[last.h].st = "live"

\* the error Error::new builds from an error buffer
BuiltFrom(res, buf) ==
    /\ ~buf.null
    /\ IF Utf8Valid(buf.bytes) THEN IsPcapErrorOf(res, buf)
       ELSE res = Err("MalformedError")

\* an entry point that made no handle
NothingMade(h) == cap'[h] = cap[h] /\ eng'[h] = eng[h] /\ closes'[h] = closes[h]

\* C24: each constructor makes at most one engine open or create call and
\* never asks again; when the engine returns a null handle, from_device and
\* from_file return the error built from the engine's error buffer and dead()
\* returns InsufficientMemory, no Capture value is made and the engine's
\* close is not called.
C24_NoRetry ==
    [][\A h \in Handles :
         /\ \A name \in InputStrings, ret \in {"null", "handle"} :
              /\ last'.op = "from_device"
              /\ Fresh(h) /\ from_device_with(h, name, ret)
              => /\ Len(last'.calls) <= 1
                 /\ ret = "null" /\ ~HasNul(name) =>
                      /\ last'.calls = <<"pcap_create">>
                      /\ BuiltFrom(last'.res, last'.diag)
                      /\ NothingMade(h)
         /\ \A path \in InputPaths, ret \in {"null", "handle", "crash"} :
              /\ last'.op = "from_file"
              /\ Fresh(h) /\ from_file_with(h, path, ret)
              => /\ Len(last'.calls) <= 1
                 /\ ret = "null" /\ ~HasNul(path) =>
                      /\ Len(last'.calls) = 1
                      /\ BuiltFrom(last'.res, last'.diag)
                      /\ NothingMade(h)
         /\ \A ret \in {"null", "handle"} :
              /\ last'.op = "dead"
              /\ Fresh(h) /\ dead_with(h, ret)
              => /\ last'.calls = <<"pcap_open_dead">>
                 /\ ret = "null" =>
                      /\ last'.res = Err("InsufficientMemory")
                      /\ NothingMade(h)
      ]_vars

C24_Witness ==
    /\ last.op = "from_device" /\ last.calls = <<"pcap_create">>
    /\ last.res.kind = "PcapError"
    /\ cap[last.h].st = "none" /\ closes[last.h] = 0

\* as_raw_fd returns the descriptor the engine gave, and panics on -1
RawFdOutcome ==
    last.op = "as_raw_fd" =>
        /\ last.tag = "Active"
        /\ last.calls = <<"pcap_fileno">>
        /\ last.status # -1 => last.res = [kind |-> "Ok", msg |-> <<last.status>>]
        /\ last.status = -1 => last.res = Panic

\* a call that asked the engine and ended in a panic
EngineAbort(l) == l.res = Panic /\ l.calls # <<>>

\* C25 as stated: as_raw_fd returns the engine's descriptor when it is not
\* -1 and panics when it is, and no other operation of the handle turns an
\* engine status into a panic.
C25_Original ==
    /\ RawFdOutcome
    /\ EngineAbort(last) => last.op = "as_raw_fd"

\* C25: as_raw_fd on an Active handle returns the engine's descriptor when it
\* is not -1 and panics when it is, without an error value; the only other
\* operation that turns an engine status into a panic is the retrieval,
\* next() (and the poll step through it), on a status outside
\* {>= 1, 0, -1, -2}.
C25_RawFd ==
    /\ RawFdOutcome
    /\ EngineAbort(last) =>
         \/ last.op = "as_raw_fd"
         \/ last.op \in {"next", "next_noblock"} /\ last.status < PCAP_ERROR_BREAK

C25_Witness ==
    /\ last.op = "as_raw_fd" /\ last.status = -1
    /\ last.res = Panic /\ cap[last.h].st = "live"

C27_NonblockOnlyActive ==
    \A h \in Handles :
      /\ cap[h].nonblock =>
           /\ origin[h] = "from_device" /\ opened[h]
           /\ cap[h].tag \in {"Active", "dyn"}
      /\ cap[h].tag \in {"Offline", "Dead"} => ~cap[h].nonblock
      /\ origin[h] \in {"from_file", "from_raw_fd", "dead"} =>
           /\ ~cap[h].nonblock /\ ~cap[h].stream
           /\ ~reactor[h].registered
           /\ last.op = "stream" /\ last.h = h =>
                /\ last.res = Err("NonNonBlock")
                /\ cap[h].st = "dropped"

C27_Witness ==
    /\ last.op = "stream" /\ last.res = Err("NonNonBlock")
    /\ FileBacked(last.h)
    /\ cap[last.h].st = "dropped"

Arrived(h) == task[h].yields + Len(eng[h].queue)

====
